---- MODULE Spec2Model ----
(***************************************************************************)
(* Model of src/cactus/preprocessor/cutHeaders.py: the header cutter       *)
(* (cut_header, CutHeadersJob.run) and the header table builder            *)
(* (make_cut_header_table, make_one_header_table, join_header_table).      *)
(*                                                                         *)
(* A Python str is a sequence of one-character strings.  An optional value *)
(* (None or a value) is a sequence of length 0 or 1.                       *)
(***************************************************************************)
EXTENDS Integers, Sequences, FiniteSets, TLC

\* ------------------------------------------------------------------------
\* Bounds of the header-cutter inputs
\* ------------------------------------------------------------------------
MaxLen == 3
MaxSetLen == 2
MaxOcc == 3

Alphabet == {"a", "#", " "}
Whitespace == {" ", "\t", "\n"}

None == <<>>
Some(v) == <<v>>

Range(s) == {s[i] : i \in 1..Len(s)}

RECURSIVE StrsOfLen(_)
StrsOfLen(n) ==
    IF n = 0 THEN {<<>>}
    ELSE {Append(s, c) : s \in StrsOfLen(n - 1), c \in Alphabet}

RECURSIVE StrsUpTo(_)
StrsUpTo(n) == IF n = 0 THEN StrsOfLen(0) ELSE StrsOfLen(n) \cup StrsUpTo(n - 1)

\* SeqIO's FASTA parser right-strips the title line, so no description ends
\* in whitespace.
Headers == {h \in StrsUpTo(MaxLen) : h = <<>> \/ h[Len(h)] \notin Whitespace}
CharSets == {None} \cup {Some(s) : s \in StrsUpTo(MaxSetLen)}
OccValues == {None} \cup {Some(n) : n \in (-1)..MaxOcc}

\* ------------------------------------------------------------------------
\* Python helpers used by cut_header
\* ------------------------------------------------------------------------
\* Truth value of an optional str (None and "" are falsy) and of an
\* optional int (None and 0 are falsy).
TruthyStr(x) == x # None /\ x[1] # <<>>
TruthyInt(x) == x # None /\ x[1] # 0

Min2(a, b) == IF a <= b THEN a ELSE b

\* seq[i] with Python's indexing: negative i counts from the end; None
\* stands for IndexError.
PyIndex(s, i) ==
    IF i >= 0 /\ i < Len(s) THEN Some(s[i + 1])
    ELSE IF i < 0 /\ -i <= Len(s) THEN Some(s[Len(s) + i + 1])
    ELSE None

\* header[i:] and header[0:j] for 0 <= i, j <= len(header)
SliceFrom(s, i) == SubSeq(s, i + 1, Len(s))
SliceTo(s, j) == SubSeq(s, 1, j)

\* [i for i, c in enumerate(header) if c in cutBefore]
RECURSIVE OccsFrom(_, _, _)
OccsFrom(header, chars, i) ==
    IF i >= Len(header) THEN <<>>
    ELSE IF header[i + 1] \in Range(chars)
         THEN <<i>> \o OccsFrom(header, chars, i + 1)
         ELSE OccsFrom(header, chars, i + 1)

\* header.find(c): lowest 0-based index of c, or -1
RECURSIVE FindFrom(_, _, _)
FindFrom(header, c, i) ==
    IF i >= Len(header) THEN -1
    ELSE IF header[i + 1] = c THEN i
    ELSE FindFrom(header, c, i + 1)

Find(header, c) == FindFrom(header, c, 0)

\* [header.find(c) for c in cutAfter if header.find(c) >= 0]
RECURSIVE PosList(_, _)
PosList(header, chars) ==
    IF chars = <<>> THEN <<>>
    ELSE IF Find(header, Head(chars)) >= 0
         THEN <<Find(header, Head(chars))>> \o PosList(header, Tail(chars))
         ELSE PosList(header, Tail(chars))

\* min(pos_list) of a non-empty list
RECURSIVE MinOf(_)
MinOf(s) == IF Len(s) = 1 THEN s[1] ELSE Min2(s[1], MinOf(Tail(s)))

\* ------------------------------------------------------------------------
\* Outcome of a call: a returned value or a raised exception.  named is the
\* set of headers the exception's message contains.
\* ------------------------------------------------------------------------
Return(v) == [kind |-> "return", exc |-> "", value |-> v, named |-> {}]
Raise(e, hs) == [kind |-> "raise", exc |-> e, value |-> <<>>, named |-> hs]
NotCalled == [kind |-> "none", exc |-> "", value |-> <<>>, named |-> {}]

\* Names bound at module level and inside cut_header.  seq_record is a local
\* of CutHeadersJob.run and of make_one_header_table only.
ModuleGlobals ==
    {"os", "re", "sys", "shutil", "SeqIO", "SeqRecord", "RoundedJob",
     "cactus_call", "RealtimeLogger", "getOptionalAttrib", "catFiles", "Job",
     "CutHeadersJob", "cut_header", "make_cut_header_table",
     "make_one_header_table", "join_header_table"}
CutHeaderLocals ==
    {"header", "cutBefore", "cutBeforeOcc", "cutAfter", "occs", "pos", "pos_list"}

\* Lines 65-76: the cutBefore step.  Some(header') or None for IndexError.
cutBeforeStep(header, cutBefore, cutBeforeOcc) ==
    IF ~TruthyStr(cutBefore) THEN Some(header)
    ELSE LET occs == OccsFrom(header, cutBefore[1], 0)
         IN IF occs = <<>> THEN Some(header)
            ELSE LET sel == IF ~TruthyInt(cutBeforeOcc)
                            THEN PyIndex(occs, -1)
                            ELSE PyIndex(occs, Min2(Len(occs), cutBeforeOcc[1]) - 1)
                 IN IF sel = None THEN None
                    ELSE LET pos == sel[1]
                         IN IF pos >= 0
                            THEN IF pos < Len(header) - 1
                                 THEN Some(SliceFrom(header, pos + 1))
                                 ELSE Some(<<>>)
                            ELSE Some(header)

\* Lines 77-81: the cutAfter step.
cutAfterStep(header, cutAfter) ==
    IF ~TruthyStr(cutAfter) THEN header
    ELSE LET pos_list == PosList(header, cutAfter[1])
         IN IF pos_list = <<>> THEN header
            ELSE SliceTo(header, MinOf(pos_list))

\* Lines 83-84: the error names seq_record, which resolves neither in
\* cut_header nor at module level, so evaluating the message raises NameError.
emptyHeaderError(header) ==
    IF "seq_record" \in CutHeaderLocals \cup ModuleGlobals
    THEN Raise("RuntimeError", {header})
    ELSE Raise("NameError", {})

\* Variants of cut_header with one line changed.
\* occs[0] instead of occs[-1] when cutBeforeOcc is unset
cut_header_firstMatch(header, cutBefore, cutBeforeOcc, cutAfter) ==
    LET occs == IF TruthyStr(cutBefore) THEN OccsFrom(header, cutBefore[1], 0) ELSE <<>>
        before == IF occs # <<>> /\ ~TruthyInt(cutBeforeOcc)
                  THEN Some(SliceFrom(header, occs[1] + 1))
                  ELSE cutBeforeStep(header, cutBefore, cutBeforeOcc)
    IN IF before = None THEN Raise("IndexError", {})
       ELSE LET after == cutAfterStep(before[1], cutAfter)
            IN IF after = <<>> THEN emptyHeaderError(header)
               ELSE Return(after)

\* the cutAfter step taken before the cutBefore step
cut_header_afterFirst(header, cutBefore, cutBeforeOcc, cutAfter) ==
    LET before == cutBeforeStep(cutAfterStep(header, cutAfter), cutBefore, cutBeforeOcc)
    IN IF before = None THEN Raise("IndexError", {})
       ELSE IF before[1] = <<>> THEN emptyHeaderError(header)
       ELSE Return(before[1])

\* without the check of lines 83-84
cut_header_noEmptyCheck(header, cutBefore, cutBeforeOcc, cutAfter) ==
    LET before == cutBeforeStep(header, cutBefore, cutBeforeOcc)
    IN IF before = None THEN Raise("IndexError", {})
       ELSE Return(cutAfterStep(before[1], cutAfter))

\* "if cutBefore is not None" at line 65 and no "if occs" at line 67
cut_header_noOccsGuard(header, cutBefore, cutBeforeOcc, cutAfter) ==
    LET before == IF cutBefore # None /\ OccsFrom(header, cutBefore[1], 0) = <<>>
                  THEN None
                  ELSE cutBeforeStep(header, cutBefore, cutBeforeOcc)
    IN IF before = None THEN Raise("IndexError", {})
       ELSE LET after == cutAfterStep(before[1], cutAfter)
            IN IF after = <<>> THEN emptyHeaderError(header)
               ELSE Return(after)

cut_header(header, cutBefore, cutBeforeOcc, cutAfter) ==
    LET before == cutBeforeStep(header, cutBefore, cutBeforeOcc)
    IN IF before = None THEN Raise("IndexError", {})
       ELSE LET after == cutAfterStep(before[1], cutAfter)
            IN IF after = <<>> THEN emptyHeaderError(header)
               ELSE Return(after)

\* ------------------------------------------------------------------------
\* State
\* ------------------------------------------------------------------------
VARIABLES
    self,            \* fields of the CutHeadersJob: cutBefore, cutBeforeOcc, cutAfter
    runState,        \* CutHeadersJob.run: "ready", "done" or "failed"
    out_file,        \* None, or Some(descriptions written to the global file)
    lastCall,        \* arguments and outcome of the latest cut_header call
    config_node,     \* preprocessor nodes of the configuration
    input_fa_ids,    \* the fasta file of every sample
    event_names,     \* the event name of every sample
    status,          \* state of every job of the table-construction graph
    children,        \* job -> jobs added with addChild / addChildJobFn
    followOns,       \* job -> jobs added with addFollowOnJobFn
    cutArgs,         \* cut_before, cut_before_occ, cut_after given to the header jobs
    header_table_ids,\* the promises handed to join_header_table
    rv,              \* job -> None, or Some(table the job wrote to the file store)
    failure,         \* job -> outcome of the job when it raised
    joinRuns,        \* number of times join_header_table ran
    readUnwritten    \* join_header_table read a promise that was not fulfilled

cutVars == <<self, runState, out_file>>
tableVars == <<config_node, input_fa_ids, event_names, status, children, followOns,
               cutArgs, header_table_ids, rv, failure, joinRuns, readUnwritten>>
vars == <<self, runState, out_file, lastCall, config_node, input_fa_ids, event_names,
          status, children, followOns, cutArgs, header_table_ids, rv, failure,
          joinRuns, readUnwritten>>

\* A sequence record: its description line and len(seq_record.seq).
Record(h, n) == [description |-> h, seq_len |-> n]

Call(h, cb, occ, ca) ==
    [made |-> TRUE, header |-> h, cutBefore |-> cb, cutBeforeOcc |-> occ,
     cutAfter |-> ca, result |-> cut_header(h, cb, occ, ca)]
NoCall ==
    [made |-> FALSE, header |-> <<>>, cutBefore |-> None, cutBeforeOcc |-> None,
     cutAfter |-> None, result |-> NotCalled]

\* ------------------------------------------------------------------------
\* CutHeadersJob
\* ------------------------------------------------------------------------
\* Lines 55-60: the loop over the records of in_file.  written is the local
\* output file so far; call is the latest cut_header call.
RECURSIVE runLoop(_, _, _, _)
runLoop(records, job, written, call) ==
    IF records = <<>> THEN [raised |-> FALSE, written |-> written, call |-> call]
    ELSE LET c == Call(Head(records).description, job.cutBefore,
                       job.cutBeforeOcc, job.cutAfter)
         IN IF c.result.kind = "raise"
            THEN [raised |-> TRUE, written |-> written, call |-> c]
            ELSE runLoop(Tail(records), job, Append(written, c.result.value), c)

\* The input files of CutHeadersJob.run: every file of at most one record,
\* and some files of two records.
OneRecordFiles == {<<>>} \cup {<<Record(h, 1)>> : h \in Headers}
TwoRecordFiles ==
    {<<Record(<<"a">>, 1), Record(h, 1)>> : h \in {<<"#", "a">>, <<"#">>, <<>>}}

InitTable ==
    /\ config_node = <<>>
    /\ input_fa_ids = <<>>
    /\ event_names = <<>>
    /\ status = <<>>
    /\ children = <<>>
    /\ followOns = <<>>
    /\ cutArgs = <<>>
    /\ header_table_ids = <<>>
    /\ rv = <<>>
    /\ failure = <<>>
    /\ joinRuns = 0
    /\ readUnwritten = FALSE

\* Lines 21-27: __init__
InitCut ==
    /\ self \in [cutBefore : CharSets, cutBeforeOcc : OccValues, cutAfter : CharSets]
    /\ runState = "ready"
    /\ out_file = None
    /\ lastCall = NoCall
    /\ InitTable

\* Lines 29-62: run.  The global file is written only when the loop ends.
run ==
    /\ runState = "ready"
    /\ \E in_file \in OneRecordFiles \cup TwoRecordFiles :
         LET r == runLoop(in_file, self, <<>>, lastCall)
         IN /\ runState' = IF r.raised THEN "failed" ELSE "done"
            /\ out_file' = IF r.raised THEN None ELSE Some(r.written)
            /\ lastCall' = r.call
    /\ UNCHANGED <<self, tableVars>>

NextCut == run
SpecCut == InitCut /\ [][NextCut]_vars

\* ------------------------------------------------------------------------
\* Header table builder
\* ------------------------------------------------------------------------
MaxSamples == 2

TheJob == <<"job", 0>>        \* the job running make_cut_header_table
RootJob == <<"root", 0>>      \* root_job = Job()
JoinJob == <<"join", 0>>      \* join_job
HeaderJob(i) == <<"header", i>>
JobIds == {TheJob, RootJob, JoinJob} \cup {HeaderJob(i) : i \in 1..MaxSamples}

\* A preprocessor node of the configuration; every attribute is optional.
Node(name, active, cb, occ, ca) ==
    [preprocessJob |-> name, active |-> active, cutBefore |-> cb,
     cutBeforeOcc |-> occ, cutAfter |-> ca]

ConfigPool ==
    { <<>>,
      <<Node(Some("cutHeaders"), Some(TRUE), Some(<<"#">>), None, None)>>,
      <<Node(Some("cutHeaders"), Some(TRUE), Some(<<"#">>), Some(1), Some(<<" ">>))>>,
      <<Node(Some("cutHeaders"), Some(TRUE), None, None, Some(<<" ", "#">>))>>,
      <<Node(Some("cutHeaders"), Some(TRUE), None, Some(1), None)>>,
      <<Node(Some("cutHeaders"), Some(TRUE), Some(<<>>), None, Some(<<>>))>>,
      <<Node(Some("cutHeaders"), Some(FALSE), Some(<<"#">>), None, None)>>,
      <<Node(Some("cutHeaders"), None, Some(<<"#">>), None, None)>>,
      <<Node(Some("checkUniqueHeaders"), Some(TRUE), Some(<<"#">>), None, None),
        Node(None, Some(TRUE), None, None, Some(<<" ">>))>>,
      <<Node(Some("cutHeaders"), Some(TRUE), Some(<<"#">>), None, None),
        Node(Some("cutHeaders"), Some(TRUE), None, None, None)>> }

FastaPool ==
    { <<>>,
      <<Record(<<"x", "#", "a">>, 2), Record(<<"b">>, 1)>>,
      <<Record(<<"b">>, 3)>>,
      <<Record(<<"a", "\t", "b">>, 1)>>,
      <<Record(<<"a", "\t", "c">>, 1)>>,
      <<Record(<<>>, 0)>>,
      <<Record(<<"c", "#">>, 12)>>,
      <<Record(<<"c", " ", "d">>, 1), Record(<<"c", " ", "e">>, 1)>> }

Digits == <<"0", "1", "2", "3", "4", "5", "6", "7", "8", "9">>
EventName(i) == <<"e", Digits[i + 1]>>

\* str(n) for n >= 0, as '{}'.format writes it
RECURSIVE Str(_)
Str(n) ==
    IF n < 10 THEN <<Digits[n + 1]>>
    ELSE Str(n \div 10) \o <<Digits[(n % 10) + 1]>>

\* cactus.shared.common.getOptionalAttrib with default None: the attribute
\* converted by typeFn, or None when the node lacks it.
getOptionalAttrib(node, attribName) == node[attribName]

\* Lines 104-110: the parameters of the last active cutHeaders node.
RECURSIVE parseConfig(_, _)
parseConfig(prep_nodes, acc) ==
    IF prep_nodes = <<>> THEN acc
    ELSE LET prep_node == Head(prep_nodes)
             prep_job_name == getOptionalAttrib(prep_node, "preprocessJob")
             active == getOptionalAttrib(prep_node, "active")
         IN IF prep_job_name = Some("cutHeaders") /\ active = Some(TRUE)
            THEN parseConfig(Tail(prep_nodes),
                     [cut_before |-> getOptionalAttrib(prep_node, "cutBefore"),
                      cut_before_occ |-> getOptionalAttrib(prep_node, "cutBeforeOcc"),
                      cut_after |-> getOptionalAttrib(prep_node, "cutAfter")])
            ELSE parseConfig(Tail(prep_nodes), acc)

NoCutArgs == [cut_before |-> None, cut_before_occ |-> None, cut_after |-> None]

\* zip(input_fa_ids, event_names) at line 115
Zip(a, b) == [i \in 1..Min2(Len(a), Len(b)) |-> <<a[i], b[i]>>]

\* Line 131: one row of the table
FormatRow(original, header, event, seq_len) ==
    original \o <<"\t">> \o header \o <<"\t">> \o event \o <<"\t">>
        \o Str(seq_len) \o <<"\n">>

\* Lines 126-131: the loop over the records of the fasta file.
RECURSIVE tableLoop(_, _, _, _, _, _, _)
tableLoop(records, event, cut_before, cut_before_occ, cut_after, written, call) ==
    IF records = <<>> THEN [raised |-> FALSE, written |-> written, call |-> call]
    ELSE LET description == Head(records).description
             cut == TruthyStr(cut_before) \/ TruthyStr(cut_after)
             c == IF cut THEN Call(description, cut_before, cut_before_occ, cut_after)
                  ELSE call
             header == IF cut THEN c.result.value ELSE description
         IN IF cut /\ c.result.kind = "raise"
            THEN [raised |-> TRUE, written |-> written, call |-> c]
            ELSE tableLoop(Tail(records), event, cut_before, cut_before_occ, cut_after,
                           written \o FormatRow(description, header, event,
                                                Head(records).seq_len), c)

\* the table file opened anew for every record, so that only the row of the
\* last record is left in it
make_one_header_table_lastRowOnly(fa, event, cut_before, cut_before_occ, cut_after, call) ==
    LET r == tableLoop(fa, event, cut_before, cut_before_occ, cut_after, <<>>, call)
    IN IF r.raised \/ fa = <<>> THEN r
       ELSE [r EXCEPT !.written =
                 tableLoop(<<fa[Len(fa)]>>, event, cut_before, cut_before_occ,
                           cut_after, <<>>, call).written]

\* cut_header called for every record, whatever the parameters
RECURSIVE tableLoop_alwaysCut(_, _, _, _, _, _, _)
tableLoop_alwaysCut(records, event, cut_before, cut_before_occ, cut_after, written, call) ==
    IF records = <<>> THEN [raised |-> FALSE, written |-> written, call |-> call]
    ELSE LET description == Head(records).description
             c == Call(description, cut_before, cut_before_occ, cut_after)
         IN IF c.result.kind = "raise"
            THEN [raised |-> TRUE, written |-> written, call |-> c]
            ELSE tableLoop_alwaysCut(Tail(records), event, cut_before, cut_before_occ,
                                     cut_after,
                                     written \o FormatRow(description, c.result.value,
                                                          event, Head(records).seq_len), c)

make_one_header_table_alwaysCut(fa, event, cut_before, cut_before_occ, cut_after, call) ==
    tableLoop_alwaysCut(fa, event, cut_before, cut_before_occ, cut_after, <<>>, call)

\* Lines 123-132: the table of one sample, or the exception of cut_header.
\* call is the latest cut_header call before this one ran.
make_one_header_table(fa, event, cut_before, cut_before_occ, cut_after, call) ==
    tableLoop(fa, event, cut_before, cut_before_occ, cut_after, <<>>, call)

\* catFiles: the files one after the other
RECURSIVE catFiles(_)
catFiles(files) == IF files = <<>> THEN <<>> ELSE Head(files) \o catFiles(Tail(files))

\* "for line in table_file": the lines of the file, each with its newline
RECURSIVE LinesFrom(_, _, _)
LinesFrom(file, i, cur) ==
    IF i > Len(file) THEN (IF cur = <<>> THEN <<>> ELSE <<cur>>)
    ELSE IF file[i] = "\n" THEN <<Append(cur, "\n")>> \o LinesFrom(file, i + 1, <<>>)
    ELSE LinesFrom(file, i + 1, Append(cur, file[i]))

\* str.rstrip()
RECURSIVE RStrip(_)
RStrip(s) ==
    IF s # <<>> /\ s[Len(s)] \in Whitespace THEN RStrip(SubSeq(s, 1, Len(s) - 1))
    ELSE s

\* str.split(sep)
RECURSIVE SplitFrom(_, _, _, _)
SplitFrom(s, sep, i, cur) ==
    IF i > Len(s) THEN <<cur>>
    ELSE IF s[i] = sep THEN <<cur>> \o SplitFrom(s, sep, i + 1, <<>>)
    ELSE SplitFrom(s, sep, i + 1, Append(cur, s[i]))

Split(s, sep) == SplitFrom(s, sep, 1, <<>>)

\* Lines 138-146: None, or Some(the token found a second time)
RECURSIVE uniquenessCheck(_, _)
uniquenessCheck(lines, contig_set) ==
    IF lines = <<>> THEN None
    ELSE LET toks == Split(RStrip(Head(lines)), "\t")
         IN IF toks # <<>>
            THEN IF toks[1] \in contig_set THEN Some(toks[1])
                 ELSE uniquenessCheck(Tail(lines), contig_set \cup {toks[1]})
            ELSE uniquenessCheck(Tail(lines), contig_set)

\* without the uniqueness check of lines 138-146
join_header_table_noCheck(tables) == Return(catFiles(tables))

\* Lines 134-148: the joined table, or the duplicate-header error.
join_header_table(tables) ==
    LET table == catFiles(tables)
        dup == uniquenessCheck(LinesFrom(table, 1, <<>>), {})
    IN IF dup # None THEN Raise("RuntimeError", {dup[1]})
       ELSE Return(table)

\* join_job added as a child of the job instead of as its follow-on
taskGraph_joinAsChild(n) ==
    [children |-> [j \in JobIds |->
                     IF j = TheJob THEN {RootJob, JoinJob}
                     ELSE IF j = RootJob THEN {HeaderJob(i) : i \in 1..n}
                     ELSE {}],
     followOns |-> [j \in JobIds |-> {}]]

\* Lines 113-119: root_job is a child of the job, every header job a child
\* of root_job, join_job a follow-on of the job.
taskGraph(n) ==
    [children |-> [j \in JobIds |->
                     IF j = TheJob THEN {RootJob}
                     ELSE IF j = RootJob THEN {HeaderJob(i) : i \in 1..n}
                     ELSE {}],
     followOns |-> [j \in JobIds |-> IF j = TheJob THEN {JoinJob} ELSE {}]]

\* The workflow engine: a job and all its successors have completed
RECURSIVE SubtreeDone(_)
SubtreeDone(j) ==
    /\ status[j] = "done"
    /\ \A s \in children[j] \cup followOns[j] : SubtreeDone(s)

\* The workflow engine: a child may start once its parent has run; a
\* follow-on once its predecessor and the subtrees of all the predecessor's
\* children have completed.
Ready(j) ==
    /\ status[j] = "blocked"
    /\ \E p \in JobIds :
         /\ status[p] = "done"
         /\ \/ j \in children[p]
            \/ j \in followOns[p] /\ \A c \in children[p] : SubtreeDone(c)

\* Nothing runs and nothing can start.
Quiescent == \A j \in JobIds : status[j] # "issued" /\ ~Ready(j)

NumSamples == Min2(Len(input_fa_ids), Len(event_names))

Init ==
    /\ self = [cutBefore |-> None, cutBeforeOcc |-> None, cutAfter |-> None]
    /\ runState = "idle"
    /\ out_file = None
    /\ lastCall = NoCall
    /\ config_node \in ConfigPool
    /\ \E n \in 0..MaxSamples :
         /\ input_fa_ids \in [1..n -> FastaPool]
         /\ event_names = [i \in 1..n |-> EventName(i)]
    /\ status = [j \in JobIds |-> IF j = TheJob THEN "issued" ELSE "absent"]
    /\ children = [j \in JobIds |-> {}]
    /\ followOns = [j \in JobIds |-> {}]
    /\ cutArgs = NoCutArgs
    /\ header_table_ids = <<>>
    /\ rv = [j \in JobIds |-> None]
    /\ failure = [j \in JobIds |-> NotCalled]
    /\ joinRuns = 0
    /\ readUnwritten = FALSE

\* Lines 88-121: parse the configuration and build the task graph.
make_cut_header_table ==
    /\ status[TheJob] = "issued"
    /\ LET n == Len(Zip(input_fa_ids, event_names))
           g == taskGraph(n)
           added == UNION {g.children[j] \cup g.followOns[j] : j \in JobIds}
       IN /\ cutArgs' = parseConfig(config_node, NoCutArgs)
          /\ children' = g.children
          /\ followOns' = g.followOns
          /\ header_table_ids' = [i \in 1..n |-> HeaderJob(i)]
          /\ status' = [j \in JobIds |->
                          IF j = TheJob THEN "done"
                          ELSE IF j \in added THEN "blocked"
                          ELSE status[j]]
    /\ UNCHANGED <<cutVars, lastCall, config_node, input_fa_ids, event_names, rv,
                   failure, joinRuns, readUnwritten>>

\* The workflow engine starts a job whose predecessors have completed.
Issue(j) ==
    /\ Ready(j)
    /\ status' = [status EXCEPT ![j] = "issued"]
    /\ UNCHANGED <<cutVars, lastCall, config_node, input_fa_ids, event_names, children,
                   followOns, cutArgs, header_table_ids, rv, failure, joinRuns,
                   readUnwritten>>

\* Line 113: root_job = Job() has an empty body.
RunRoot ==
    /\ status[RootJob] = "issued"
    /\ status' = [status EXCEPT ![RootJob] = "done"]
    /\ UNCHANGED <<cutVars, lastCall, config_node, input_fa_ids, event_names, children,
                   followOns, cutArgs, header_table_ids, rv, failure, joinRuns,
                   readUnwritten>>

\* Lines 116-117, 123-132: the header job of sample i.
RunHeader(i) ==
    /\ status[HeaderJob(i)] = "issued"
    /\ LET pair == Zip(input_fa_ids, event_names)[i]
           r == make_one_header_table(pair[1], pair[2], cutArgs.cut_before,
                                      cutArgs.cut_before_occ, cutArgs.cut_after,
                                      lastCall)
       IN /\ lastCall' = r.call
          /\ status' = [status EXCEPT ![HeaderJob(i)] =
                                         IF r.raised THEN "failed" ELSE "done"]
          /\ rv' = IF r.raised THEN rv
                   ELSE [rv EXCEPT ![HeaderJob(i)] = Some(r.written)]
          /\ failure' = IF r.raised
                        THEN [failure EXCEPT ![HeaderJob(i)] = r.call.result]
                        ELSE failure
    /\ UNCHANGED <<cutVars, config_node, input_fa_ids, event_names, children, followOns,
                   cutArgs, header_table_ids, joinRuns, readUnwritten>>

\* Lines 119, 134-148: the join job.  A promise of a job that has not
\* returned cannot be read.
RunJoin ==
    /\ status[JoinJob] = "issued"
    /\ joinRuns' = joinRuns + 1
    /\ IF \E k \in 1..Len(header_table_ids) : rv[header_table_ids[k]] = None
       THEN /\ readUnwritten' = TRUE
            /\ status' = [status EXCEPT ![JoinJob] = "failed"]
            /\ failure' = [failure EXCEPT ![JoinJob] = Raise("UnfulfilledPromise", {})]
            /\ rv' = rv
       ELSE LET r == join_header_table(
                         [k \in 1..Len(header_table_ids) |-> rv[header_table_ids[k]][1]])
            IN /\ readUnwritten' = readUnwritten
               /\ status' = [status EXCEPT ![JoinJob] =
                                IF r.kind = "raise" THEN "failed" ELSE "done"]
               /\ failure' = IF r.kind = "raise"
                             THEN [failure EXCEPT ![JoinJob] = r]
                             ELSE failure
               /\ rv' = IF r.kind = "raise" THEN rv
                        ELSE [rv EXCEPT ![JoinJob] = Some(r.value)]
    /\ UNCHANGED <<cutVars, lastCall, config_node, input_fa_ids, event_names, children,
                   followOns, cutArgs, header_table_ids>>

Next ==
    \/ make_cut_header_table
    \/ \E j \in JobIds : Issue(j)
    \/ RunRoot
    \/ \E i \in 1..MaxSamples : RunHeader(i)
    \/ RunJoin

Spec == Init /\ [][Next]_vars

\* ------------------------------------------------------------------------
\* What the header cutter is claimed to compute, stated over positions
\* ------------------------------------------------------------------------
\* 0-based positions of the characters of h that belong to chars
MatchPos(h, chars) == {i \in 0..(Len(h) - 1) : h[i + 1] \in Range(chars)}

MaxPos(P) == CHOOSE p \in P : \A q \in P : q <= p
MinPos(P) == CHOOSE p \in P : \A q \in P : p <= q
\* p_k among p_1 < ... < p_n
NthPos(P, k) == CHOOSE p \in P : Cardinality({q \in P : q <= p}) = k

\* cutBeforeOcc is unset or a positive integer
OccInDomain(occ) == occ = None \/ occ[1] > 0

SelectedPos(h, cb, occ) ==
    LET P == MatchPos(h, cb[1])
    IN IF ~TruthyInt(occ) THEN MaxPos(P)
       ELSE NthPos(P, Min2(Cardinality(P), occ[1]))

\* the header after the cutBefore step
TrimmedBefore(h, cb, occ) ==
    IF ~TruthyStr(cb) \/ MatchPos(h, cb[1]) = {} THEN h
    ELSE SubSeq(h, SelectedPos(h, cb, occ) + 2, Len(h))

\* the header t after the cutAfter step
TrimmedAfter(t, ca) ==
    IF ~TruthyStr(ca) \/ MatchPos(t, ca[1]) = {} THEN t
    ELSE SubSeq(t, 1, MinPos(MatchPos(t, ca[1])))

C1_Case ==
    /\ lastCall.made
    /\ TruthyStr(lastCall.cutBefore)
    /\ ~TruthyStr(lastCall.cutAfter)
    /\ OccInDomain(lastCall.cutBeforeOcc)

C1_Expected == TrimmedBefore(lastCall.header, lastCall.cutBefore, lastCall.cutBeforeOcc)

\* C1 as stated: with cutBefore non-empty, cutAfter empty and cutBeforeOcc
\* unset or positive, cut_header returns the header unchanged when it has no
\* cutBefore character, and otherwise the substring strictly after the
\* selected match (the last one when cutBeforeOcc is unset, the
\* min(n, cutBeforeOcc)-th otherwise).
C1_AsStated == C1_Case => lastCall.result = Return(C1_Expected)

\* C1 amended: cut_header returns that string whenever it is non-empty, and
\* raises instead of returning when it is empty.
C1_Amended ==
    C1_Case =>
        IF C1_Expected = <<>>
        THEN lastCall.result.kind = "raise"
        ELSE lastCall.result = Return(C1_Expected)

\* An occurrence index larger than the number of matches was clamped to the
\* last match, and the call returned the text after it.
C1_Witness ==
    /\ C1_Case
    /\ lastCall.cutBeforeOcc # None
    /\ lastCall.cutBeforeOcc[1] > Cardinality(MatchPos(lastCall.header, lastCall.cutBefore[1]))
    /\ Cardinality(MatchPos(lastCall.header, lastCall.cutBefore[1])) >= 2
    /\ lastCall.result.kind = "return"
    /\ lastCall.result.value # lastCall.header

C2_Case ==
    /\ lastCall.made
    /\ TruthyStr(lastCall.cutAfter)
    /\ OccInDomain(lastCall.cutBeforeOcc)

C2_Trimmed == TrimmedBefore(lastCall.header, lastCall.cutBefore, lastCall.cutBeforeOcc)
C2_Expected == TrimmedAfter(C2_Trimmed, lastCall.cutAfter)

\* C2 as stated: with cutAfter non-empty, cut_header returns the prefix of
\* the cutBefore-trimmed header that ends just before the earliest cutAfter
\* character of the trimmed header, and the trimmed header itself when it has
\* no cutAfter character.
C2_AsStated == C2_Case => lastCall.result = Return(C2_Expected)

\* C2 amended: cut_header returns that prefix whenever it is non-empty, and
\* raises instead of returning when it is empty.
C2_Amended ==
    C2_Case =>
        IF C2_Expected = <<>>
        THEN lastCall.result.kind = "raise"
        ELSE lastCall.result = Return(C2_Expected)

\* A cutAfter character occurred only in the part removed by cutBefore, and
\* the call returned the trimmed header whole.
C2_Witness ==
    /\ C2_Case
    /\ C2_Trimmed # lastCall.header
    /\ MatchPos(lastCall.header, lastCall.cutAfter[1]) # {}
    /\ MatchPos(C2_Trimmed, lastCall.cutAfter[1]) = {}
    /\ lastCall.result = Return(C2_Trimmed)

\* C3: cut_header never returns an empty header: every returned value is a
\* non-empty string, and a call whose trimming leaves the empty string raises.
C3_NeverEmpty ==
    lastCall.made =>
        /\ lastCall.result.kind \in {"return", "raise"}
        /\ lastCall.result.kind = "return" => lastCall.result.value # <<>>
        /\ ( /\ OccInDomain(lastCall.cutBeforeOcc)
             /\ TrimmedAfter(C2_Trimmed, lastCall.cutAfter) = <<>> )
           => lastCall.result.kind = "raise"

\* The selected cutBefore position was the final character of a header of
\* several characters, and the call raised.
C3_Witness ==
    /\ lastCall.made
    /\ Len(lastCall.header) >= 2
    /\ TruthyStr(lastCall.cutBefore)
    /\ OccInDomain(lastCall.cutBeforeOcc)
    /\ MatchPos(lastCall.header, lastCall.cutBefore[1]) # {}
    /\ SelectedPos(lastCall.header, lastCall.cutBefore, lastCall.cutBeforeOcc)
         = Len(lastCall.header) - 1
    /\ lastCall.result.kind = "raise"

\* C4: when cutting reduces a header to the empty string, cut_header raises
\* the empty-header error (a RuntimeError) whose message contains the header
\* that was passed in.
C4_ErrorNamesHeader ==
    ( /\ lastCall.made
      /\ OccInDomain(lastCall.cutBeforeOcc)
      /\ TrimmedAfter(C2_Trimmed, lastCall.cutAfter) = <<>> )
    => /\ lastCall.result.kind = "raise"
       /\ lastCall.result.exc = "RuntimeError"
       /\ lastCall.result.named = {lastCall.header}

C6_Case ==
    /\ lastCall.made
    /\ ~TruthyStr(lastCall.cutBefore)
    /\ ~TruthyStr(lastCall.cutAfter)
    /\ lastCall.cutBeforeOcc = None

\* C6 as stated: with empty cutBefore and cutAfter and cutBeforeOcc unset,
\* cut_header returns the header it was given.
C6_AsStated == C6_Case => lastCall.result = Return(lastCall.header)

\* C6 amended: it returns every non-empty header as given, and raises on the
\* empty header.
C6_Amended ==
    C6_Case =>
        IF lastCall.header = <<>>
        THEN lastCall.result.kind = "raise"
        ELSE lastCall.result = Return(lastCall.header)

\* A header made only of characters that other parameters would cut at was
\* returned as given.
C6_Witness ==
    /\ C6_Case
    /\ lastCall.header = <<"#", " ", "#">>
    /\ lastCall.result.kind = "return"

\* ------------------------------------------------------------------------
\* What the table builder is claimed to compute
\* ------------------------------------------------------------------------
RECURSIVE Concat(_)
Concat(seqs) == IF seqs = <<>> THEN <<>> ELSE Head(seqs) \o Concat(Tail(seqs))

\* the records of all samples, in the order of the samples
AllRecords == Concat(input_fa_ids)
Originals == [k \in 1..Len(AllRecords) |-> AllRecords[k].description]

IsRepeat(hs, k) == \E m \in 1..(k - 1) : hs[m] = hs[k]
HasRepeat(hs) == \E k \in 1..Len(hs) : IsRepeat(hs, k)
FirstRepeat(hs) == CHOOSE k \in 1..Len(hs) : IsRepeat(hs, k) /\ \A m \in 1..(k - 1) : ~IsRepeat(hs, m)

NumLines(table) == Cardinality({i \in 1..Len(table) : table[i] = "\n"})

JoinRan == status[JoinJob] \in {"done", "failed"}
HeaderTables == [k \in 1..NumSamples |-> rv[HeaderJob(k)][1]]

\* C5: join_header_table raises the duplicate-header error, naming the
\* repeated value, at the first row whose original header equals that of an
\* earlier row, and then writes no joined table; it returns the concatenated
\* table only when all original headers are pairwise distinct.
C5_DuplicateError ==
    JoinRan =>
        /\ HasRepeat(Originals) =>
              /\ status[JoinJob] = "failed"
              /\ failure[JoinJob] = Raise("RuntimeError", {Originals[FirstRepeat(Originals)]})
              /\ rv[JoinJob] = None
        /\ status[JoinJob] = "failed" => HasRepeat(Originals)
        /\ status[JoinJob] = "done" =>
              /\ ~HasRepeat(Originals)
              /\ rv[JoinJob] = Some(catFiles(HeaderTables))

\* C7: when table construction completes, the joined table has one row per
\* input record: as many rows as all the samples have records.
C7_RowCount ==
    status[JoinJob] = "done" => NumLines(rv[JoinJob][1]) = Len(AllRecords)

\* Two samples, one of them of several records, were joined.
C7_Witness ==
    /\ status[JoinJob] = "done"
    /\ Len(input_fa_ids) >= 2
    /\ \E i \in 1..Len(input_fa_ids) : Len(input_fa_ids[i]) >= 2
    /\ \A i \in 1..Len(input_fa_ids) : Len(input_fa_ids[i]) >= 1

ParamsAbsent == ~TruthyStr(cutArgs.cut_before) /\ ~TruthyStr(cutArgs.cut_after)
NoActiveCutNode ==
    \A k \in 1..Len(config_node) :
        ~(config_node[k].preprocessJob = Some("cutHeaders") /\ config_node[k].active = Some(TRUE))

RECURSIVE UncutTable(_, _)
UncutTable(fa, event) ==
    IF fa = <<>> THEN <<>>
    ELSE FormatRow(Head(fa).description, Head(fa).description, event, Head(fa).seq_len)
             \o UncutTable(Tail(fa), event)

\* C8: without an active cutHeaders step, or with neither cutBefore nor
\* cutAfter given, cut_header is not called for any record, no header job
\* fails, and the cut header of every row is its original header.
C8_SkippedWhenAbsent ==
    status[TheJob] = "done" =>
        /\ NoActiveCutNode => cutArgs = NoCutArgs
        /\ ParamsAbsent =>
              /\ ~lastCall.made
              /\ \A i \in 1..NumSamples :
                    /\ status[HeaderJob(i)] # "failed"
                    /\ status[HeaderJob(i)] = "done" =>
                          rv[HeaderJob(i)] = Some(UncutTable(input_fa_ids[i], event_names[i]))

\* The header job of a sample with an empty header, which cut_header would
\* reject, completed without cut parameters.
C8_Witness ==
    /\ status[TheJob] = "done"
    /\ ParamsAbsent
    /\ \E i \in 1..NumSamples :
          /\ status[HeaderJob(i)] = "done"
          /\ \E k \in 1..Len(input_fa_ids[i]) : input_fa_ids[i][k].description = <<>>

\* C9: the join job starts only after every header job has completed
\* successfully, it runs at most once and exactly once when they all
\* succeeded, and it never reads a table that has not been written.
C9_JoinAfterAll ==
    /\ status[JoinJob] \in {"issued", "done", "failed"} =>
          \A i \in 1..NumSamples :
              status[HeaderJob(i)] = "done" /\ rv[HeaderJob(i)] # None
    /\ joinRuns = (IF JoinRan THEN 1 ELSE 0)
    /\ ~readUnwritten
    /\ ( /\ Quiescent
         /\ status[TheJob] = "done"
         /\ \A i \in 1..NumSamples : status[HeaderJob(i)] = "done" )
       => joinRuns = 1

\* The join job ran after the header jobs of several samples.
C9_Witness ==
    /\ JoinRan
    /\ NumSamples >= 2
    /\ joinRuns = 1

\* C10: a joined table exists only when every header job and the join job
\* succeeded, and then it is the whole concatenation: if a header job or the
\* join job failed, or two original headers are equal, there is none.
C10_NoPartialOutput ==
    rv[JoinJob] # None =>
        /\ \A j \in JobIds : status[j] # "failed"
        /\ status[JoinJob] = "done"
        /\ \A i \in 1..NumSamples : status[HeaderJob(i)] = "done"
        /\ ~HasRepeat(Originals)
        /\ rv[JoinJob][1] = catFiles(HeaderTables)

\* One header job failed while another succeeded, the workflow came to rest,
\* and the join job never started.
C10_Witness ==
    /\ Quiescent
    /\ \E i, k \in 1..NumSamples :
          status[HeaderJob(i)] = "failed" /\ status[HeaderJob(k)] = "done"
    /\ status[JoinJob] = "blocked"
    /\ rv[JoinJob] = None

====
